---- MODULE Spec2Model ----
(***************************************************************************)
(* Keystone POS API: the sale transaction engine (create_sale) and the     *)
(* handlers that change the collections it reads.                          *)
(*                                                                         *)
(* Units.  Prices are given in millimes (1/1000), tax rates in hundredths, *)
(* quantities in whole units; each is converted to the IEEE-754 double the *)
(* Python code computes with (Dec).  Amounts the handler accumulates       *)
(* (subtotal, tax_total, tax_breakdown values) are doubles: records        *)
(* [m, e] standing for m * 2^e, m a 53-bit mantissa held in four 14-bit    *)
(* limbs (little-endian), or FZero.  Values produced by round(x, 3) are    *)
(* integers counting millimes.  Stock is an integer: the $inc amounts are  *)
(* whole numbers, on which double arithmetic is exact.                     *)
(***************************************************************************)
EXTENDS Integers, Sequences, FiniteSets, TLC

\* ------------------------------------------------------------------------
\* Natural numbers of up to 112 bits, as Width limbs of LimbBits bits

LimbBits == 14
Width == 8
MantBits == 53
Base == 2^LimbBits

Limb(M, i) == IF i >= 1 /\ i <= Len(M) THEN M[i] ELSE 0

Pad(m) == [i \in 1..Width |-> Limb(m, i)]

FromInt(n) == [i \in 1..Width |-> IF i = 1 THEN n % Base
                                  ELSE IF i = 2 THEN (n \div Base) % Base
                                  ELSE IF i = 3 THEN n \div (Base * Base)
                                  ELSE 0]

ToInt(M) == M[1] + M[2] * Base + M[3] * Base * Base

RECURSIVE Carry(_, _, _)
Carry(c, i, carry) ==
    IF i > Width THEN <<>>
    ELSE LET t == c[i] + carry
         IN  <<t % Base>> \o Carry(c, i + 1, t \div Base)

NatAdd(a, b) == Carry([i \in 1..Width |-> a[i] + b[i]], 1, 0)

\* a and b below 2^56 (four limbs each)
NatMul(a, b) ==
    Carry([k \in 1..Width |->
              Limb(a, 1) * Limb(b, k) + Limb(a, 2) * Limb(b, k - 1)
            + Limb(a, 3) * Limb(b, k - 2) + Limb(a, 4) * Limb(b, k - 3)], 1, 0)

TopLimb(M) == IF \A i \in 1..Width : M[i] = 0 THEN 0
              ELSE CHOOSE i \in 1..Width :
                      M[i] # 0 /\ \A j \in (i + 1)..Width : M[j] = 0

BitLenSmall(v) == CHOOSE n \in 0..LimbBits :
                     2^n > v /\ (n = 0 \/ 2^(n - 1) <= v)

BitLen(M) == IF TopLimb(M) = 0 THEN 0
             ELSE LimbBits * (TopLimb(M) - 1) + BitLenSmall(M[TopLimb(M)])

ShiftRight(M, k) ==
    LET a == k \div LimbBits
        b == k % LimbBits
    IN  [i \in 1..Width |-> (Limb(M, i + a) \div 2^b)
                          + (Limb(M, i + a + 1) % 2^b) * 2^(LimbBits - b)]

ShiftLeft(M, k) ==
    LET a == k \div LimbBits
        b == k % LimbBits
    IN  [i \in 1..Width |-> ((Limb(M, i - a) * 2^b) % Base)
                          + (Limb(M, i - a - 1) \div 2^(LimbBits - b))]

Bit(M, i) == (Limb(M, (i \div LimbBits) + 1) \div 2^(i % LimbBits)) % 2

\* bits 0..k-1 of M are all zero
LowZero(M, k) ==
    /\ \A i \in 1..Width : i <= k \div LimbBits => M[i] = 0
    /\ Limb(M, (k \div LimbBits) + 1) % 2^(k % LimbBits) = 0

RECURSIVE RemAt(_, _, _)
RemAt(M, d, i) == IF i > Width THEN 0
                  ELSE (RemAt(M, d, i + 1) * Base + M[i]) % d

\* limbs 1..i of the quotient of M by a divisor d < Base, r the remainder
\* carried down from the limbs above i
RECURSIVE DivFrom(_, _, _, _)
DivFrom(M, d, i, r) ==
    IF i = 0 THEN <<>>
    ELSE LET t == r * Base + M[i]
         IN  DivFrom(M, d, i - 1, t % d) \o <<t \div d>>

DivSmall(M, d) == DivFrom(M, d, Width, 0)

\* (M + s) / 2^k rounded to the nearest integer, ties to even, where s is a
\* positive amount below 1 when sticky and 0 otherwise
RoundShift(M, k, sticky) ==
    IF k = 0 THEN M
    ELSE LET q    == ShiftRight(M, k)
             half == Bit(M, k - 1) = 1
             low  == sticky \/ ~LowZero(M, k - 1)
         IN  IF half /\ (low \/ Bit(M, k) = 1)
             THEN NatAdd(q, FromInt(1)) ELSE q

\* ------------------------------------------------------------------------
\* IEEE-754 binary64, round to nearest even, non-negative normal values

FZero == [m |-> <<0, 0, 0, 0>>, e |-> 0]

Mant(M) == [i \in 1..4 |-> M[i]]

\* the double nearest to (M + s) * 2^E
RoundToDouble(M, E, sticky) ==
    LET L == BitLen(M)
    IN  IF L = 0 THEN FZero
        ELSE IF L <= MantBits
             THEN [m |-> Mant(ShiftLeft(M, MantBits - L)), e |-> E - (MantBits - L)]
        ELSE LET k == L - MantBits
                 q == RoundShift(M, k, sticky)
             IN  IF BitLen(q) > MantBits
                 THEN [m |-> Mant(ShiftRight(q, 1)), e |-> E + k + 1]
                 ELSE [m |-> Mant(q), e |-> E + k]

\* x * y on doubles
FMul(x, y) ==
    IF x = FZero \/ y = FZero THEN FZero
    ELSE RoundToDouble(NatMul(Pad(x.m), Pad(y.m)), x.e + y.e, FALSE)

\* x + y on doubles
FAdd(x, y) ==
    IF x = FZero THEN y
    ELSE IF y = FZero THEN x
    ELSE LET hi == IF x.e >= y.e THEN x ELSE y
             lo == IF x.e >= y.e THEN y ELSE x
             d  == hi.e - lo.e
         IN  IF d > MantBits + 1 THEN hi
             ELSE RoundToDouble(NatAdd(ShiftLeft(Pad(hi.m), d), Pad(lo.m)),
                                lo.e, FALSE)

\* the double a decimal literal n/d denotes (n < 2^28, d < Base)
Dec(n, d) ==
    IF n = 0 THEN FZero
    ELSE LET num == ShiftLeft(FromInt(n), 70)
         IN  RoundToDouble(DivSmall(num, d), -70, RemAt(num, d, 1) # 0)

\* round(x, 3), as a number of millimes: the exact binary value of x is
\* rounded to three decimals, ties to even
Round3(x) ==
    IF x = FZero THEN 0
    ELSE LET P == NatMul(Pad(x.m), FromInt(1000))
         IN  IF x.e >= 0 THEN ToInt(ShiftLeft(P, x.e))
             ELSE ToInt(RoundShift(P, -x.e, FALSE))


\* ------------------------------------------------------------------------
\* Data

\* tax_code: Optional[str] = None; None is the empty tuple, a code c is <<c>>
NoTax == <<>>

Code(c) == <<c>>

MaxLines == 3

NumTaxCallers == 1

NumSeeders == 1

NumCreators == 2

\* ensure_default_taxes: the default Tunisian TVA rates, rate in hundredths
DefaultTaxes ==
    << [name |-> "TVA 7%",  rate |-> 7,  code |-> "TVA7",  is_default |-> FALSE],
       [name |-> "TVA 13%", rate |-> 13, code |-> "TVA13", is_default |-> FALSE],
       [name |-> "TVA 19%", rate |-> 19, code |-> "TVA19", is_default |-> TRUE] >>

\* seed_demo: the demo products, price in millimes
DemoProducts ==
    << [sku |-> "MILK-1L",   name |-> "Milk 1L",       price |-> 2500, stock |-> 100, tax_code |-> Code("TVA7")],
       [sku |-> "BREAD-STD", name |-> "Bread",         price |-> 600,  stock |-> 200, tax_code |-> Code("TVA7")],
       [sku |-> "SHMP-250",  name |-> "Shampoo 250ml", price |-> 8900, stock |-> 50,  tax_code |-> Code("TVA19")],
       [sku |-> "SUGAR-1KG", name |-> "Sugar 1kg",     price |-> 3200, stock |-> 80,  tax_code |-> Code("TVA13")] >>

\* SaleItem: qty > 0 in whole units, unit_price >= 0 in millimes
SaleItem(sku, qty, unit_price, tax_code) ==
    [sku |-> sku, qty |-> qty, unit_price |-> unit_price, tax_code |-> tax_code]

\* Payment
Payment(method, paid, change) == [method |-> method, paid |-> paid, change |-> change]

\* Sale: the request body, with the defaults of the fields the caller may omit
Sale(items, payment) ==
    [items |-> items, subtotal |-> 0, tax_total |-> 0, total |-> 0,
     tax_breakdown |-> <<>>, payment |-> payment]

\* the lines requests are built from
Lines ==
    { SaleItem("MILK-1L",   2, 2500, Code("TVA7")),
      SaleItem("BREAD-STD", 1, 600,  Code("TVA7")),
      SaleItem("BREAD-STD", 1, 125,  Code("TVA7")),
      SaleItem("SUGAR-1KG", 2, 125,  Code("TVA13")),
      SaleItem("SHMP-250",  1, 600,  NoTax),
      SaleItem("MILK-1L",   1, 600,  Code("TVA20")),
      SaleItem("FOO-1",     1, 600,  Code("TVA7")),
      SaleItem("BAR-2",     1, 600,  Code("TVA19")) }

SeqsUpTo(S, n) == UNION { [1..k -> S] : k \in 0..n }

Requests == { Sale(items, Payment("cash", 10000, 0)) : items \in SeqsUpTo(Lines, MaxLines) }

NumHandlers == 2

Handlers == 1..NumHandlers

Idle == [items |-> <<>>]

\* ------------------------------------------------------------------------
\* State

VARIABLES
    product,        \* collection "product": sequence of documents, _id = position
    taxrate,        \* collection "taxrate"
    sale,           \* collection "sale"
    pc,             \* per create_sale request: where the handler is
    req,            \* its request body
    taxes,          \* its map code -> rate (hundredths) built at the start
    idx,            \* position of the for loop in sale.items
    prod,           \* the document find_one returned for the current line
    subtotal, tax_total, tax_breakdown,   \* its accumulators (doubles)
    resp,           \* what the request returned or raised
    before,         \* history: the product and taxrate collections when the request began
    initial,        \* history: the product collection of the initial state
    tpc,            \* per list_taxes request: where the handler is
    existing,       \* the codes ensure_default_taxes found stored
    tk,             \* position of its for loop in defaults, then of seed_demo's in demo_products
    listed,         \* the documents list_taxes returned
    created,        \* the defaults ensure_default_taxes created, which it returns
    seeded,         \* the answer of seed_demo, as far as it is built
    user,           \* collection "user"
    cpc,            \* per create_product request: where the handler is
    creq,           \* its request body
    cresp           \* what the request returned or raised

vars == <<product, taxrate, sale, pc, req, taxes, idx, prod,
          subtotal, tax_total, tax_breakdown, resp, before, initial,
          tpc, existing, tk, listed, created, seeded, user, cpc, creq, cresp>>

saleVars == <<pc, req, taxes, idx, prod, subtotal, tax_total, tax_breakdown, resp, before>>

ensureVars == <<tpc, existing, tk, listed, created, seeded>>

catalogVars == <<user, cpc, creq, cresp>>

\* ------------------------------------------------------------------------
\* create_sale

\* {t.get("code"): t for t in get_documents("taxrate")}: a later document
\* replaces an earlier one with the same code
TaxMap(docs) ==
    [c \in { docs[i].code : i \in 1..Len(docs) } |->
        LET last == CHOOSE i \in 1..Len(docs) :
                       docs[i].code = c /\ \A j \in (i + 1)..Len(docs) : docs[j].code # c
        IN  docs[last].rate]

\* db["product"].find_one({"sku": sku}): the first matching document, or none
FindOne(coll, sku) ==
    LET hits == { i \in 1..Len(coll) : coll[i].sku = sku }
    IN  IF hits = {} THEN [_id |-> 0]
        ELSE LET i == CHOOSE h \in hits : \A g \in hits : h <= g
             IN  [_id |-> i, doc |-> coll[i]]

\* mutant: the stock read by find_one is changed and written back
IncStockReadModifyWrite(coll, found, amount) ==
    [coll EXCEPT ![found._id].stock = found.doc.stock + amount]

\* mutant: $set in place of $inc
IncStockSet(coll, found, amount) ==
    [coll EXCEPT ![found._id].stock = amount]

\* mutant: the sign of the amount is lost
IncStockAdd(coll, found, amount) ==
    [coll EXCEPT ![found._id].stock = @ - amount]

\* update_one({"_id": found["_id"]}, {"$inc": {"stock": amount}})
IncStock(coll, found, amount) ==
    [coll EXCEPT ![found._id].stock = @ + amount]

\* create_document(collection, data)
CreateDocument(coll, data) == Append(coll, data)

LinePrice(item) == FMul(Dec(item.qty, 1), Dec(item.unit_price, 1000))

\* item.tax_code and item.tax_code in taxes: None and "" are falsy
Taxed(item, tx) ==
    /\ item.tax_code # NoTax
    /\ item.tax_code[1] # ""
    /\ item.tax_code[1] \in DOMAIN tx

LineRate(item, tx) == Dec(tx[item.tax_code[1]], 100)

\* mutant: the tax of each line is rounded to three decimals
TaxAmountRoundedPerLine(line_price, rate) == Dec(Round3(FMul(line_price, rate)), 1000)

TaxAmount(line_price, rate) == FMul(line_price, rate)

\* mutant: the amount replaces what the code had accumulated
AddBreakdownOverwrite(bd, code, amount) ==
    [c \in DOMAIN bd \cup {code} |-> IF c = code THEN amount ELSE bd[c]]

AddBreakdown(bd, code, amount) ==
    [c \in DOMAIN bd \cup {code} |->
        FAdd(IF c \in DOMAIN bd THEN bd[c] ELSE FZero, IF c = code THEN amount ELSE FZero)]

\* mutant: a line with no tax code is taxed at the default rate
TaxLineDefaultRate(item, tx, line_price, acc) ==
    LET code == IF item.tax_code = NoTax THEN "TVA19" ELSE item.tax_code[1]
    IN  IF code \in DOMAIN tx
        THEN LET tax_amount == TaxAmount(line_price, Dec(tx[code], 100))
             IN  [tax_total     |-> FAdd(acc.tax_total, tax_amount),
                  tax_breakdown |-> AddBreakdown(acc.tax_breakdown, code, tax_amount)]
        ELSE acc

\* mutant: a code missing from the table is taxed at rate 0
TaxLineZeroRate(item, tx, line_price, acc) ==
    IF item.tax_code # NoTax
    THEN LET rate == IF item.tax_code[1] \in DOMAIN tx THEN Dec(tx[item.tax_code[1]], 100) ELSE FZero
             tax_amount == TaxAmount(line_price, rate)
         IN  [tax_total     |-> FAdd(acc.tax_total, tax_amount),
              tax_breakdown |-> AddBreakdown(acc.tax_breakdown, item.tax_code[1], tax_amount)]
    ELSE acc

\* the tax part of the loop body; acc holds tax_total and tax_breakdown
TaxLine(item, tx, line_price, acc) ==
    IF Taxed(item, tx)
    THEN LET tax_amount == TaxAmount(line_price, LineRate(item, tx))
         IN  [tax_total     |-> FAdd(acc.tax_total, tax_amount),
              tax_breakdown |-> AddBreakdown(acc.tax_breakdown, item.tax_code[1], tax_amount)]
    ELSE acc

\* mutant: the rates are fetched again for each line
TaxesForRefetch(p) == TaxMap(taxrate)

\* the taxes the loop body reads
TaxesFor(p) == taxes[p]

\* mutant: the error names the last line
UnknownSkuErrorLast(items, i) ==
    [status_code |-> 400, detail |-> <<"Unknown SKU", items[Len(items)].sku>>]

\* HTTPException(status_code=400, detail=f"Unknown SKU: {item.sku}")
UnknownSkuError(items, i) == [status_code |-> 400, detail |-> <<"Unknown SKU", items[i].sku>>]

RoundBreakdown(bd) == [c \in DOMAIN bd |-> Round3(bd[c])]

\* mutant: the values the body carries win over the computed ones
SaleRecordKeepsSupplied(request, sub, tax, bd) ==
    [request EXCEPT !.subtotal = IF @ = 0 THEN Round3(sub) ELSE @,
                    !.tax_total = IF @ = 0 THEN Round3(tax) ELSE @,
                    !.total = IF @ = 0 THEN Round3(FAdd(sub, tax)) ELSE @,
                    !.tax_breakdown = IF @ = <<>> THEN RoundBreakdown(bd) ELSE @]

\* sale_record = sale.model_dump(); sale_record.update({...})
SaleRecord(request, sub, tax, bd) ==
    [request EXCEPT !.subtotal = Round3(sub),
                    !.tax_total = Round3(tax),
                    !.total = Round3(FAdd(sub, tax)),
                    !.tax_breakdown = RoundBreakdown(bd)]

Created(rec) == [status |-> "created",
                 totals |-> [subtotal |-> rec.subtotal, tax_total |-> rec.tax_total,
                             total |-> rec.total]]

\* mutant: a quantity of zero passes (ge in place of gt)
ValidLineQtyGe(item) == item.qty >= 0 /\ item.unit_price >= 0

\* SaleItem: qty gt 0, unit_price ge 0
ValidLine(item) == item.qty > 0 /\ item.unit_price >= 0

\* Payment: method is one of three literals, paid ge 0
ValidPayment(payment) ==
    /\ payment.method \in {"cash", "card", "mixed"}
    /\ payment.paid >= 0

\* the body is parsed into a Sale before create_sale runs
ValidSale(r) ==
    /\ \A i \in 1..Len(r.items) : ValidLine(r.items[i])
    /\ ValidPayment(r.payment)

\* the answer to a body that is not a Sale
ValidationError == [status_code |-> 422, detail |-> <<"Unprocessable Entity", "body">>]

\* a body that is not a Sale is answered before create_sale is entered
SaleReject(p, R) ==
    /\ pc[p] = "idle"
    /\ \E r \in R : ~ValidSale(r) /\ req' = [req EXCEPT ![p] = r]
    /\ resp' = [resp EXCEPT ![p] = ValidationError]
    /\ before' = [before EXCEPT ![p] = [product |-> product, taxrate |-> taxrate]]
    /\ pc' = [pc EXCEPT ![p] = "rejected"]
    /\ UNCHANGED <<product, taxrate, sale, taxes, idx, prod,
                   subtotal, tax_total, tax_breakdown, initial, ensureVars, catalogVars>>

SaleStart(p, R) ==
    /\ pc[p] = "idle"
    /\ \E r \in R : ValidSale(r) /\ req' = [req EXCEPT ![p] = r]
    /\ taxes' = [taxes EXCEPT ![p] = TaxMap(taxrate)]
    /\ subtotal' = [subtotal EXCEPT ![p] = FZero]
    /\ tax_total' = [tax_total EXCEPT ![p] = FZero]
    /\ tax_breakdown' = [tax_breakdown EXCEPT ![p] = <<>>]
    /\ idx' = [idx EXCEPT ![p] = 1]
    /\ before' = [before EXCEPT ![p] = [product |-> product, taxrate |-> taxrate]]
    /\ pc' = [pc EXCEPT ![p] = "loop"]
    /\ UNCHANGED <<product, taxrate, sale, prod, resp, initial, ensureVars, catalogVars>>

SaleFindUnknown(p) ==
    /\ pc[p] = "loop"
    /\ idx[p] <= Len(req[p].items)
    /\ FindOne(product, req[p].items[idx[p]].sku)._id = 0
    /\ resp' = [resp EXCEPT ![p] = UnknownSkuError(req[p].items, idx[p])]
    /\ pc' = [pc EXCEPT ![p] = "failed"]
    /\ UNCHANGED <<product, taxrate, sale, req, taxes, idx, prod,
                   subtotal, tax_total, tax_breakdown, before, initial, ensureVars, catalogVars>>

SaleFindOk(p) ==
    /\ pc[p] = "loop"
    /\ idx[p] <= Len(req[p].items)
    /\ LET item  == req[p].items[idx[p]]
           found == FindOne(product, item.sku)
           line_price == LinePrice(item)
           acc == TaxLine(item, TaxesFor(p), line_price,
                          [tax_total |-> tax_total[p], tax_breakdown |-> tax_breakdown[p]])
       IN  /\ found._id # 0
           /\ prod' = [prod EXCEPT ![p] = found]
           /\ subtotal' = [subtotal EXCEPT ![p] = FAdd(@, line_price)]
           /\ tax_total' = [tax_total EXCEPT ![p] = acc.tax_total]
           /\ tax_breakdown' = [tax_breakdown EXCEPT ![p] = acc.tax_breakdown]
    /\ pc' = [pc EXCEPT ![p] = "inc"]
    /\ UNCHANGED <<product, taxrate, sale, req, taxes, idx, resp, before, initial, ensureVars, catalogVars>>

SaleInc(p) ==
    /\ pc[p] = "inc"
    /\ product' = IncStock(product, prod[p], -req[p].items[idx[p]].qty)
    /\ idx' = [idx EXCEPT ![p] = @ + 1]
    /\ pc' = [pc EXCEPT ![p] = "loop"]
    /\ UNCHANGED <<taxrate, sale, req, taxes, prod,
                   subtotal, tax_total, tax_breakdown, resp, before, initial, ensureVars, catalogVars>>

SaleInsert(p) ==
    /\ pc[p] = "loop"
    /\ idx[p] > Len(req[p].items)
    /\ LET rec == SaleRecord(req[p], subtotal[p], tax_total[p], tax_breakdown[p])
       IN  /\ sale' = CreateDocument(sale, rec)
           /\ resp' = [resp EXCEPT ![p] = Created(rec)]
    /\ pc' = [pc EXCEPT ![p] = "done"]
    /\ UNCHANGED <<product, taxrate, req, taxes, idx, prod,
                   subtotal, tax_total, tax_breakdown, before, initial, ensureVars, catalogVars>>

\* ------------------------------------------------------------------------
\* list_taxes and seed_demo, which run ensure_default_taxes

\* the list_taxes requests
TaxCallers == 1..NumTaxCallers

\* the seed_demo requests
Seeders == (NumTaxCallers + 1)..(NumTaxCallers + NumSeeders)

Callers == TaxCallers \cup Seeders

Codes(docs) == { docs[i].code : i \in 1..Len(docs) }

\* existing = {t.get("code"): t for t in get_documents("taxrate")}
EnsureRead(t) ==
    /\ tpc[t] = "idle"
    /\ existing' = [existing EXCEPT ![t] = Codes(taxrate)]
    /\ tk' = [tk EXCEPT ![t] = 1]
    /\ created' = [created EXCEPT ![t] = <<>>]
    /\ tpc' = [tpc EXCEPT ![t] = "defaults"]
    /\ UNCHANGED <<product, taxrate, sale, saleVars, initial, listed, seeded, catalogVars>>

\* a default whose code was not stored is created
EnsureCreate(t) ==
    /\ tpc[t] = "defaults"
    /\ tk[t] <= Len(DefaultTaxes)
    /\ DefaultTaxes[tk[t]].code \notin existing[t]
    /\ taxrate' = CreateDocument(taxrate, DefaultTaxes[tk[t]])
    /\ created' = [created EXCEPT ![t] = Append(@, DefaultTaxes[tk[t]])]
    /\ tk' = [tk EXCEPT ![t] = @ + 1]
    /\ UNCHANGED <<product, sale, saleVars, initial, tpc, existing, listed, seeded, catalogVars>>

EnsureSkip(t) ==
    /\ tpc[t] = "defaults"
    /\ tk[t] <= Len(DefaultTaxes)
    /\ DefaultTaxes[tk[t]].code \in existing[t]
    /\ tk' = [tk EXCEPT ![t] = @ + 1]
    /\ UNCHANGED <<product, taxrate, sale, saleVars, initial, tpc, existing, listed,
                   created, seeded, catalogVars>>

\* return get_documents("taxrate")
ListTaxesReturn(t) ==
    /\ tpc[t] = "defaults"
    /\ tk[t] > Len(DefaultTaxes)
    /\ listed' = [listed EXCEPT ![t] = taxrate]
    /\ tpc' = [tpc EXCEPT ![t] = "done"]
    /\ UNCHANGED <<product, taxrate, sale, saleVars, initial, existing, tk, created, seeded, catalogVars>>

\* ------------------------------------------------------------------------
\* seed_demo, after ensure_default_taxes

\* the demo user
DemoUser == [username |-> "admin", display_name |-> "Admin", role |-> "admin", is_active |-> TRUE]

\* if db["product"].count_documents({}) == 0
SeedCountProducts(t) ==
    /\ tpc[t] = "defaults"
    /\ tk[t] > Len(DefaultTaxes)
    /\ IF Len(product) = 0
       THEN tpc' = [tpc EXCEPT ![t] = "products"] /\ tk' = [tk EXCEPT ![t] = 1]
       ELSE tpc' = [tpc EXCEPT ![t] = "users"] /\ tk' = tk
    /\ UNCHANGED <<product, taxrate, sale, saleVars, initial, existing, listed,
                   created, seeded, catalogVars>>

\* for p in demo_products: create_document("product", p)
SeedCreateProduct(t) ==
    /\ tpc[t] = "products"
    /\ tk[t] <= Len(DemoProducts)
    /\ product' = CreateDocument(product, DemoProducts[tk[t]])
    /\ tk' = [tk EXCEPT ![t] = @ + 1]
    /\ UNCHANGED <<taxrate, sale, saleVars, initial, tpc, existing, listed,
                   created, seeded, catalogVars>>

\* if db["user"].count_documents({}) == 0
SeedCountUsers(t) ==
    /\ \/ tpc[t] = "users"
       \/ tpc[t] = "products" /\ tk[t] > Len(DemoProducts)
    /\ tpc' = [tpc EXCEPT ![t] = IF Len(user) = 0 THEN "adduser" ELSE "answer"]
    /\ UNCHANGED <<product, taxrate, sale, saleVars, initial, existing, tk, listed,
                   created, seeded, catalogVars>>

\* create_document("user", {...})
SeedCreateUser(t) ==
    /\ tpc[t] = "adduser"
    /\ user' = CreateDocument(user, DemoUser)
    /\ tpc' = [tpc EXCEPT ![t] = "answer"]
    /\ UNCHANGED <<product, taxrate, sale, saleVars, initial, existing, tk, listed,
                   created, seeded, cpc, creq, cresp>>

\* the answer is built: "taxes_created": len(created_taxes),
\* "products": db["product"].count_documents({})
SeedAnswerProducts(t) ==
    /\ tpc[t] = "answer"
    /\ seeded' = [seeded EXCEPT ![t] = [status |-> "ok", taxes_created |-> Len(created[t]),
                                        products |-> Len(product), users |-> 0]]
    /\ tpc' = [tpc EXCEPT ![t] = "answerusers"]
    /\ UNCHANGED <<product, taxrate, sale, saleVars, initial, existing, tk, listed,
                   created, catalogVars>>

\* "users": db["user"].count_documents({}), and the request returns
SeedAnswerUsers(t) ==
    /\ tpc[t] = "answerusers"
    /\ seeded' = [seeded EXCEPT ![t].users = Len(user)]
    /\ tpc' = [tpc EXCEPT ![t] = "done"]
    /\ UNCHANGED <<product, taxrate, sale, saleVars, initial, existing, tk, listed,
                   created, catalogVars>>

\* ------------------------------------------------------------------------
\* create_product

Creators == 1..NumCreators

\* ProductIn, with the fields the product documents of the model keep
ProductIn(sku, name, price, stock, tax_code) ==
    [sku |-> sku, name |-> name, price |-> price, stock |-> stock, tax_code |-> tax_code]

\* db["product"].count_documents({"sku": sku})
CountSku(coll, sku) == Cardinality({ i \in 1..Len(coll) : coll[i].sku = sku })

\* HTTPException(status_code=400, detail="SKU already exists")
SkuExistsError == [status_code |-> 400, detail |-> "SKU already exists"]

\* count_documents({"sku": product.sku}) > 0
SkuTaken(coll, sku) == CountSku(coll, sku) > 0

\* the uniqueness check finds the SKU stored
ProductExists(c, R) ==
    /\ cpc[c] = "idle"
    /\ \E r \in R : SkuTaken(product, r.sku) /\ creq' = [creq EXCEPT ![c] = r]
    /\ cresp' = [cresp EXCEPT ![c] = SkuExistsError]
    /\ cpc' = [cpc EXCEPT ![c] = "failed"]
    /\ UNCHANGED <<product, taxrate, sale, saleVars, initial, ensureVars, user>>

\* the uniqueness check finds no document with the SKU
ProductCheck(c, R) ==
    /\ cpc[c] = "idle"
    /\ \E r \in R : ~SkuTaken(product, r.sku) /\ creq' = [creq EXCEPT ![c] = r]
    /\ cpc' = [cpc EXCEPT ![c] = "insert"]
    /\ UNCHANGED <<product, taxrate, sale, saleVars, initial, ensureVars, user, cresp>>

\* create_document("product", product.model_dump()); return {"status": "created"}
ProductInsert(c) ==
    /\ cpc[c] = "insert"
    /\ product' = CreateDocument(product, creq[c])
    /\ cresp' = [cresp EXCEPT ![c] = [status |-> "created"]]
    /\ cpc' = [cpc EXCEPT ![c] = "done"]
    /\ UNCHANGED <<taxrate, sale, saleVars, initial, ensureVars, user, creq>>

\* ------------------------------------------------------------------------
\* One request against the seeded store

InitHandlers ==
    /\ pc = [p \in Handlers |-> "idle"]
    /\ req = [p \in Handlers |-> Idle]
    /\ taxes = [p \in Handlers |-> <<>>]
    /\ idx = [p \in Handlers |-> 0]
    /\ prod = [p \in Handlers |-> [_id |-> 0]]
    /\ subtotal = [p \in Handlers |-> FZero]
    /\ tax_total = [p \in Handlers |-> FZero]
    /\ tax_breakdown = [p \in Handlers |-> <<>>]
    /\ resp = [p \in Handlers |-> [status |-> "none"]]
    /\ before = [p \in Handlers |-> [product |-> <<>>, taxrate |-> <<>>]]
    /\ tpc = [t \in Callers |-> "idle"]
    /\ existing = [t \in Callers |-> {}]
    /\ tk = [t \in Callers |-> 0]
    /\ listed = [t \in Callers |-> <<>>]
    /\ created = [t \in Callers |-> <<>>]
    /\ seeded = [t \in Callers |-> [status |-> "none"]]
    /\ cpc = [c \in Creators |-> "idle"]
    /\ creq = [c \in Creators |-> [sku |-> ""]]
    /\ cresp = [c \in Creators |-> [status |-> "none"]]

Init ==
    /\ product = DemoProducts
    /\ initial = DemoProducts
    /\ taxrate = DefaultTaxes
    /\ sale = <<>>
    /\ user = <<>>
    /\ InitHandlers

Next ==
    \/ SaleStart(1, Requests)
    \/ SaleFindUnknown(1)
    \/ SaleFindOk(1)
    \/ SaleInc(1)
    \/ SaleInsert(1)

Spec == Init /\ [][Next]_vars

\* ------------------------------------------------------------------------
\* A request, then the same lines in another order

IsPermutation(s, t) ==
    /\ Len(s) = Len(t)
    /\ \E f \in [1..Len(s) -> 1..Len(s)] :
          /\ \A i, j \in 1..Len(s) : i # j => f[i] # f[j]
          /\ \A i \in 1..Len(s) : t[i] = s[f[i]]

Permuted(r) ==
    { [r EXCEPT !.items = t] : t \in { u \in [1..Len(r.items) -> Lines] : IsPermutation(r.items, u) } }

NextPerm ==
    \/ SaleStart(1, Requests)
    \/ pc[1] \in {"done", "failed"} /\ SaleStart(2, Permuted(req[1]))
    \/ \E p \in {1, 2} :
          \/ SaleFindUnknown(p)
          \/ SaleFindOk(p)
          \/ SaleInc(p)
          \/ SaleInsert(p)

SpecPerm == Init /\ [][NextPerm]_vars

\* ------------------------------------------------------------------------
\* Concurrent one-line requests

ConcLines ==
    { SaleItem("MILK-1L", 2, 2500, Code("TVA7")),
      SaleItem("BREAD-STD", 1, 600, Code("TVA7")),
      SaleItem("FOO-1", 1, 600, Code("TVA7")) }

ConcRequests == { Sale(<<l>>, Payment("cash", 10000, 0)) : l \in ConcLines }

\* products created with a small stock
ConcStocks == {1, 3}

ConcProducts(s) ==
    << [sku |-> "MILK-1L",   name |-> "Milk 1L", price |-> 2500, stock |-> s, tax_code |-> Code("TVA7")],
       [sku |-> "BREAD-STD", name |-> "Bread",   price |-> 600,  stock |-> s, tax_code |-> Code("TVA7")] >>

InitConc ==
    /\ \E s \in ConcStocks : product = ConcProducts(s)
    /\ initial = product
    /\ taxrate = DefaultTaxes
    /\ sale = <<>>
    /\ user = <<>>
    /\ InitHandlers

NextConc ==
    \E p \in Handlers :
       \/ SaleStart(p, ConcRequests)
       \/ SaleFindUnknown(p)
       \/ SaleFindOk(p)
       \/ SaleInc(p)
       \/ SaleInsert(p)

SpecConc == InitConc /\ [][NextConc]_vars

\* ------------------------------------------------------------------------
\* A request while list_taxes requests fill an empty rate table

TaxLines ==
    { SaleItem("MILK-1L", 1, 600, Code("TVA19")),
      SaleItem("BREAD-STD", 1, 600, Code("TVA7")) }

TaxRequests == { Sale(items, Payment("cash", 10000, 0)) :
                   items \in [1..1 -> TaxLines] \cup [1..2 -> TaxLines] }

\* the rate table is empty, or holds the first default only
InitTax ==
    /\ product = DemoProducts
    /\ initial = DemoProducts
    /\ taxrate \in { <<>>, SubSeq(DefaultTaxes, 1, 1) }
    /\ sale = <<>>
    /\ user = <<>>
    /\ InitHandlers

NextTax ==
    \/ SaleStart(1, TaxRequests)
    \/ SaleFindOk(1)
    \/ SaleInc(1)
    \/ SaleInsert(1)
    \/ \E t \in TaxCallers :
          \/ EnsureRead(t)
          \/ EnsureCreate(t)
          \/ EnsureSkip(t)
          \/ ListTaxesReturn(t)

SpecTax == InitTax /\ [][NextTax]_vars

\* ------------------------------------------------------------------------
\* A request, valid or not, submitted twice

RepeatLines ==
    { SaleItem("MILK-1L",   2, 2500, Code("TVA7")),
      SaleItem("BREAD-STD", 1, 600,  Code("TVA19")),
      SaleItem("FOO-1",     1, 600,  Code("TVA7")),
      SaleItem("FOO-1",     0, 600,  Code("TVA7")),
      SaleItem("MILK-1L",   1, -600, Code("TVA7")) }

\* a body that carries its own totals
WithTotals(r) ==
    [r EXCEPT !.subtotal = 1000, !.tax_total = 190, !.total = 1190,
              !.tax_breakdown = [c \in {"TVA19"} |-> 190]]

\* payments that are not a Payment: an unknown method, a negative amount paid
BadPayments == { Payment("cheque", 10000, 0), Payment("CASH", 10000, 0), Payment("cash", -1000, 0) }

RepeatRequests ==
    { WithTotals(Sale(items, Payment("card", 10000, 0))) : items \in SeqsUpTo(RepeatLines, MaxLines) }
    \cup { Sale(<<l>>, pay) : l \in RepeatLines, pay \in BadPayments }

\* the second request is the first one again, sent once the first was sent
NextRepeat ==
    \/ SaleStart(1, RepeatRequests)
    \/ SaleReject(1, RepeatRequests)
    \/ pc[1] # "idle" /\ SaleStart(2, {req[1]})
    \/ pc[1] # "idle" /\ SaleReject(2, {req[1]})
    \/ \E p \in {1, 2} :
          \/ SaleFindUnknown(p)
          \/ SaleFindOk(p)
          \/ SaleInc(p)
          \/ SaleInsert(p)

SpecRepeat == Init /\ [][NextRepeat]_vars

\* ------------------------------------------------------------------------
\* seed_demo and list_taxes requests on a store that may lack rates and products

InitSeed ==
    /\ product \in { <<>>, SubSeq(DemoProducts, 1, 1) }
    /\ initial = product
    /\ taxrate \in { <<>>, SubSeq(DefaultTaxes, 1, 1) }
    /\ sale = <<>>
    /\ user \in { <<>>, <<DemoUser>> }
    /\ InitHandlers

NextSeed ==
    \/ \E t \in Callers :
          \/ EnsureRead(t)
          \/ EnsureCreate(t)
          \/ EnsureSkip(t)
    \/ \E t \in TaxCallers : ListTaxesReturn(t)
    \/ \E t \in Seeders :
          \/ SeedCountProducts(t)
          \/ SeedCreateProduct(t)
          \/ SeedCountUsers(t)
          \/ SeedCreateUser(t)
          \/ SeedAnswerProducts(t)
          \/ SeedAnswerUsers(t)

SpecSeed == InitSeed /\ [][NextSeed]_vars

\* ------------------------------------------------------------------------
\* Concurrent create_product requests

NewProducts ==
    { ProductIn("MILK-1L", "Milk 1L", 2500, 0, Code("TVA7")),
      ProductIn("TEA-100", "Tea 100g", 4200, 10, Code("TVA19")),
      ProductIn("TEA-100", "Green tea", 3900, 0, NoTax),
      ProductIn("SALT-1KG", "Salt 1kg", 700, 5, Code("TVA7")) }

NextProd ==
    \E c \in Creators :
       \/ ProductExists(c, NewProducts)
       \/ ProductCheck(c, NewProducts)
       \/ ProductInsert(c)

\* the store is empty, or seeded
InitProd ==
    /\ product \in { <<>>, DemoProducts }
    /\ initial = product
    /\ taxrate = DefaultTaxes
    /\ sale = <<>>
    /\ user = <<>>
    /\ InitHandlers

SpecProd == InitProd /\ [][NextProd]_vars

\* ------------------------------------------------------------------------
\* Exact decimal arithmetic, in units of 10^-5 (millimes times hundredths)

\* the line names a code, and the code has a rate
KnownCode(item, tx) == item.tax_code # NoTax /\ item.tax_code[1] \in DOMAIN tx

ExactAmount(item) == item.qty * item.unit_price * 100

RECURSIVE ExactSubtotal(_)
ExactSubtotal(items) ==
    IF items = <<>> THEN 0 ELSE ExactAmount(Head(items)) + ExactSubtotal(Tail(items))

\* the tax of the lines whose code is known and in codes
RECURSIVE ExactTax(_, _, _)
ExactTax(items, tx, codes) ==
    IF items = <<>> THEN 0
    ELSE LET it == Head(items)
         IN  (IF KnownCode(it, tx) /\ it.tax_code[1] \in codes
              THEN it.qty * it.unit_price * tx[it.tax_code[1]] ELSE 0)
             + ExactTax(Tail(items), tx, codes)

KnownCodes(items, tx) ==
    { items[i].tax_code[1] : i \in { j \in 1..Len(items) : KnownCode(items[j], tx) } }

AllCodes(items) == { items[i].tax_code[1] : i \in { j \in 1..Len(items) : items[j].tax_code # NoTax } }

\* millimes is exact rounded to three decimals (either neighbour on a tie)
IsRounded(millimes, exact) == (100 * millimes - exact) \in -50..50

RECURSIVE SumValues(_)
SumValues(f) ==
    IF DOMAIN f = {} THEN 0
    ELSE LET c == CHOOSE x \in DOMAIN f : TRUE
         IN  f[c] + SumValues([d \in DOMAIN f \ {c} |-> f[d]])

Catalog == { product[i].sku : i \in 1..Len(product) }

UnknownLines(items) == { i \in 1..Len(items) : items[i].sku \notin Catalog }

Done == { p \in Handlers : pc[p] = "done" }

\* the sale documents a finished request can have inserted
RecordsOf(p) ==
    { k \in 1..Len(sale) :
        /\ sale[k].items = req[p].items
        /\ sale[k].payment = req[p].payment
        /\ sale[k].subtotal = resp[p].totals.subtotal
        /\ sale[k].tax_total = resp[p].totals.tax_total
        /\ sale[k].total = resp[p].totals.total }

ExampleLines == << SaleItem("MILK-1L", 2, 2500, Code("TVA7")), SaleItem("BREAD-STD", 1, 600, Code("TVA7")) >>

\* ------------------------------------------------------------------------
\* Claims

\* C1: a request that fails on an unknown SKU leaves the stock of every
\* product as it was before the request, lines before the failing one included.
C1_FailedSaleKeepsStock ==
    \A p \in Handlers : pc[p] = "failed" => product = before[p].product

\* C3: a request with an unknown SKU inserts no sale record, and its error
\* names the unknown SKU of lowest input index.
C3_FirstUnknownSkuReported ==
    /\ Len(sale) = Cardinality(Done)
    /\ \A p \in Handlers : pc[p] = "failed" =>
          /\ UnknownLines(req[p].items) # {}
          /\ \E i \in UnknownLines(req[p].items) :
                /\ \A j \in UnknownLines(req[p].items) : i <= j
                /\ resp[p] = [status_code |-> 400, detail |-> <<"Unknown SKU", req[p].items[i].sku>>]

C3_Witness ==
    /\ pc[1] = "failed"
    /\ sale = <<>>
    /\ Cardinality({ req[1].items[i].sku : i \in UnknownLines(req[1].items) }) = 2
    /\ 1 \notin UnknownLines(req[1].items)
    /\ resp[1].detail[2] = "BAR-2"

\* C4: the recorded subtotal, tax_total, total and tax_breakdown of a
\* successful sale are the exact sums over its lines (qty * unit_price, and
\* that times the rate for lines with a known code), each rounded to three
\* decimals once; the example sale records 5.600, 0.392, {TVA7: 0.392}, 5.992.
C4_TotalsRoundedOnce ==
    \A p \in Done :
       /\ RecordsOf(p) # {}
       /\ \A k \in RecordsOf(p) :
            LET s  == sale[k]
                tx == taxes[p]
            IN  /\ 100 * s.subtotal = ExactSubtotal(s.items)
                /\ IsRounded(s.tax_total, ExactTax(s.items, tx, AllCodes(s.items)))
                /\ IsRounded(s.total, ExactSubtotal(s.items)
                                        + ExactTax(s.items, tx, AllCodes(s.items)))
                /\ DOMAIN s.tax_breakdown = KnownCodes(s.items, tx)
                /\ \A c \in DOMAIN s.tax_breakdown :
                      IsRounded(s.tax_breakdown[c], ExactTax(s.items, tx, {c}))
                /\ (s.items = ExampleLines /\ tx = TaxMap(DefaultTaxes)) =>
                      /\ s.subtotal = 5600 /\ s.tax_total = 392 /\ s.total = 5992
                      /\ s.tax_breakdown = [c \in {"TVA7"} |-> 392]

C4_Witness ==
    /\ pc[1] = "done"
    /\ req[1].items = ExampleLines
    /\ sale[1].subtotal = 5600 /\ sale[1].tax_total = 392 /\ sale[1].total = 5992
    /\ sale[1].tax_breakdown = [c \in {"TVA7"} |-> 392]

\* C5: the recorded total of a successful sale equals its recorded subtotal
\* plus its recorded tax_total, in millimes.
C5_TotalIsSubtotalPlusTax ==
    \A k \in 1..Len(sale) : sale[k].total = sale[k].subtotal + sale[k].tax_total

\* C6: the recorded tax_breakdown values sum to the recorded tax_total within
\* 0.001 per distinct code, and both are 0 when the breakdown is empty.
C6_BreakdownSumsToTaxTotal ==
    \A k \in 1..Len(sale) :
       LET s == sale[k]
           n == Cardinality(DOMAIN s.tax_breakdown)
       IN  /\ (SumValues(s.tax_breakdown) - s.tax_total) \in -n..n
           /\ DOMAIN s.tax_breakdown = {} => s.tax_total = 0

C6_Witness ==
    /\ pc[1] = "done"
    /\ Cardinality(DOMAIN sale[1].tax_breakdown) = 2
    /\ sale[1].tax_total > 0
    /\ \E i, j \in 1..Len(req[1].items) : i # j /\ req[1].items[i].tax_code = req[1].items[j].tax_code

\* C8: a line with no tax code adds qty * unit_price to the subtotal and
\* leaves tax_total and tax_breakdown as they are.
C8_NoTaxCodeLine ==
    [][\A p \in Handlers :
          (pc[p] = "loop" /\ pc'[p] = "inc" /\ req[p].items[idx[p]].tax_code = NoTax) =>
             /\ subtotal'[p] = FAdd(subtotal[p],
                                    FMul(Dec(req[p].items[idx[p]].qty, 1),
                                         Dec(req[p].items[idx[p]].unit_price, 1000)))
             /\ tax_total'[p] = tax_total[p]
             /\ tax_breakdown'[p] = tax_breakdown[p]]_vars

C8_Witness ==
    /\ pc[1] = "done"
    /\ \E i \in 1..Len(req[1].items) : req[1].items[i].tax_code = NoTax
    /\ \E i \in 1..Len(req[1].items) : KnownCode(req[1].items[i], taxes[1])
    /\ DOMAIN sale[1].tax_breakdown = KnownCodes(req[1].items, taxes[1])
    /\ sale[1].tax_total > 0
    /\ sale[1].subtotal > 600

\* C9: a line whose tax code is not in the rate table does not fail the sale
\* (only an unknown SKU does), adds nothing to tax_total and creates no
\* tax_breakdown entry.
C9_UnknownTaxCodeLine ==
    [][\A p \in Handlers :
          /\ (pc[p] = "loop" /\ pc'[p] = "failed") =>
                req[p].items[idx[p]].sku \notin Catalog
          /\ (pc[p] = "loop" /\ pc'[p] = "inc"
                /\ req[p].items[idx[p]].tax_code # NoTax
                /\ req[p].items[idx[p]].tax_code[1] \notin DOMAIN taxes[p]) =>
                /\ tax_total'[p] = tax_total[p]
                /\ tax_breakdown'[p] = tax_breakdown[p]
                /\ DOMAIN tax_breakdown'[p] \subseteq DOMAIN taxes[p]]_vars

C9_Witness ==
    /\ pc[1] = "done"
    /\ \E i \in 1..Len(req[1].items) : req[1].items[i].tax_code = Code("TVA20")
    /\ "TVA20" \notin DOMAIN taxes[1]
    /\ "TVA20" \notin DOMAIN sale[1].tax_breakdown
    /\ sale[1].tax_total > 0

\* ------------------------------------------------------------------------
\* Claims about concurrent requests

\* the lines of p whose stock decrement has been applied
Applied(p) == IF pc[p] = "idle" THEN 0 ELSE idx[p] - 1

\* the lines of p whose amounts have been accumulated
Evaluated(p) == IF pc[p] = "idle" THEN 0
                ELSE IF pc[p] = "inc" THEN idx[p] ELSE idx[p] - 1

RECURSIVE QtyOf(_, _)
QtyOf(items, sku) ==
    IF items = <<>> THEN 0
    ELSE (IF Head(items).sku = sku THEN Head(items).qty ELSE 0) + QtyOf(Tail(items), sku)

RECURSIVE SoldBy(_, _)
SoldBy(P, sku) ==
    IF P = {} THEN 0
    ELSE LET p == CHOOSE x \in P : TRUE
         IN  QtyOf(SubSeq(req[p].items, 1, Applied(p)), sku) + SoldBy(P \ {p}, sku)

\* C2: no decrement is lost or applied twice: the stock of a SKU is its
\* initial stock minus the quantities of the lines decremented so far, so N
\* finished one-line sales of quantity q leave S - N*q, below zero or not.
C2_NoLostDecrement ==
    /\ \A i \in 1..Len(product) :
          product[i].stock = initial[i].stock - SoldBy(Handlers, product[i].sku)
    /\ (\A p \in Handlers : pc[p] = "done" /\ req[p] = req[1]) =>
          \A i \in 1..Len(product) :
             product[i].sku = req[1].items[1].sku =>
                product[i].stock = initial[i].stock - NumHandlers * req[1].items[1].qty

C2_Witness ==
    /\ \A p \in Handlers : pc[p] = "done" /\ req[p].items = <<SaleItem("MILK-1L", 2, 2500, Code("TVA7"))>>
    /\ \A p \in Handlers : before[p].product = initial
    /\ product[1].stock = initial[1].stock - 2 * NumHandlers
    /\ product[1].stock < 0

\* C7: two successful sales whose line lists are permutations of each other,
\* against the same rates, record the same subtotal, tax_total and total.
C7_OrderIndependent ==
    \A p, q \in Done :
       (IsPermutation(req[p].items, req[q].items) /\ taxes[p] = taxes[q]) =>
          resp[p].totals = resp[q].totals

\* C10: every line of a request is taxed with the rate its code had in the
\* rate table when the request began, whatever the table holds since: the
\* accumulated tax of a code is the tax of all its lines at that one rate.
C10_RatesReadOnce ==
    \A p \in Handlers :
       pc[p] \in {"loop", "inc", "done"} =>
          LET tx  == TaxMap(before[p].taxrate)
              pre == SubSeq(req[p].items, 1, Evaluated(p))
          IN  /\ DOMAIN tax_breakdown[p] = KnownCodes(pre, tx)
              /\ \A c \in DOMAIN tax_breakdown[p] :
                    IsRounded(Round3(tax_breakdown[p][c]), ExactTax(pre, tx, {c}))
              /\ IsRounded(Round3(tax_total[p]), ExactTax(pre, tx, AllCodes(pre)))

C10_Witness ==
    /\ pc[1] = "done"
    /\ Len(req[1].items) = 2
    /\ \A i \in 1..2 : req[1].items[i].tax_code = Code("TVA19")
    /\ Codes(before[1].taxrate) = {"TVA7"}
    /\ "TVA19" \in Codes(taxrate)
    /\ sale[1].tax_total = 0
    /\ sale[1].tax_breakdown = <<>>

\* ------------------------------------------------------------------------
\* Claims about stock floors and the default rates

Quiescent == \A p \in Handlers : pc[p] \in {"idle", "done", "failed", "rejected"}

\* C11: starting from products with non-negative stock, once the started
\* requests have all committed, the stock of every product is non-negative.
C11_StockNeverNegative ==
    (/\ \A i \in 1..Len(initial) : initial[i].stock >= 0
     /\ \A p \in Handlers : pc[p] \in {"idle", "done"}) =>
        \A i \in 1..Len(product) : product[i].stock >= 0

\* C12: a request that has begun holds a rate snapshot with the three
\* default rates TVA7 = 0.07, TVA13 = 0.13, TVA19 = 0.19, created if they
\* were absent from the rate table.
C12_DefaultsInSnapshot ==
    \A p \in Handlers :
       pc[p] \in {"loop", "inc", "done", "failed"} =>
          \A k \in 1..Len(DefaultTaxes) :
             /\ DefaultTaxes[k].code \in DOMAIN taxes[p]
             /\ taxes[p][DefaultTaxes[k].code] = DefaultTaxes[k].rate

\* ------------------------------------------------------------------------
\* Claims about a request submitted twice

\* C13: the same valid request submitted twice, both times with success,
\* inserts two sale records with its lines and takes twice the quantity of
\* its lines off the stock of each product it names.
C13_NotIdempotent ==
    (/\ pc[1] = "done" /\ pc[2] = "done" /\ req[2] = req[1]
     /\ \A p \in Handlers \ {1, 2} : pc[p] = "idle") =>
        /\ Len(sale) = 2
        /\ \A k \in 1..2 : sale[k].items = req[1].items /\ sale[k].payment = req[1].payment
        /\ \A i \in 1..Len(product) :
              product[i].stock = initial[i].stock - 2 * QtyOf(req[1].items, product[i].sku)

C13_Witness ==
    /\ pc[1] = "done" /\ pc[2] = "done" /\ req[2] = req[1]
    /\ req[1].items = << SaleItem("MILK-1L", 2, 2500, Code("TVA7")), SaleItem("BREAD-STD", 1, 600, Code("TVA19")) >>
    /\ Len(sale) = 2 /\ sale[1] = sale[2]
    /\ product[1].stock = 96 /\ product[2].stock = 198

\* C14: a request that succeeds inserts exactly one sale record, made of its
\* lines in input order, its payment and the computed subtotal, tax_total,
\* total and tax_breakdown in place of those the body carried; a record is
\* inserted by nothing else, and no step changes or removes a stored record.
C14_OneRecordNeverChanged ==
    [][/\ \A k \in 1..Len(sale) : Len(sale') >= k /\ sale'[k] = sale[k]
       /\ Len(sale') # Len(sale) => \E p \in Handlers : pc[p] # "done" /\ pc'[p] = "done"
       /\ \A p \in Handlers :
             (pc[p] # "done" /\ pc'[p] = "done") =>
                /\ Len(sale') = Len(sale) + 1
                /\ LET s  == sale'[Len(sale')]
                       tx == TaxMap(before[p].taxrate)
                   IN  /\ s.items = req[p].items
                       /\ s.payment = req[p].payment
                       /\ 100 * s.subtotal = ExactSubtotal(req[p].items)
                       /\ IsRounded(s.tax_total, ExactTax(req[p].items, tx, AllCodes(req[p].items)))
                       /\ IsRounded(s.total, ExactSubtotal(req[p].items)
                                               + ExactTax(req[p].items, tx, AllCodes(req[p].items)))
                       /\ DOMAIN s.tax_breakdown = KnownCodes(req[p].items, tx)
                       /\ \A c \in DOMAIN s.tax_breakdown :
                             IsRounded(s.tax_breakdown[c], ExactTax(req[p].items, tx, {c}))]_vars

C14_Witness ==
    /\ pc[1] = "done" /\ pc[2] = "done"
    /\ Len(sale) = 2
    /\ req[1].items = << SaleItem("BREAD-STD", 1, 600, Code("TVA19")), SaleItem("MILK-1L", 2, 2500, Code("TVA7")) >>
    /\ req[1].subtotal = 1000 /\ req[1].tax_breakdown = [c \in {"TVA19"} |-> 190]
    /\ sale[1].items = req[1].items /\ sale[1].payment.method = "card"
    /\ sale[1].subtotal = 5600 /\ sale[1].tax_total = 464 /\ sale[1].total = 6064
    /\ sale[1].tax_breakdown = [c \in {"TVA7", "TVA19"} |-> IF c = "TVA7" THEN 350 ELSE 114]

\* C17: a request with a line of quantity <= 0 or unit price < 0 is answered
\* at the input boundary: no line of it is ever evaluated, no product it
\* names is looked up, no stock changes and no sale record is inserted.
C17_InvalidLineRejected ==
    \A p \in Handlers :
       (/\ pc[p] # "idle"
        /\ \E i \in 1..Len(req[p].items) :
              req[p].items[i].qty <= 0 \/ req[p].items[i].unit_price < 0) =>
          /\ pc[p] = "rejected"
          /\ resp[p].status_code = 422
          /\ idx[p] = 0
          /\ prod[p] = [_id |-> 0]
          /\ subtotal[p] = FZero /\ tax_total[p] = FZero /\ tax_breakdown[p] = <<>>
          /\ product = before[p].product
          /\ \A k \in 1..Len(sale) : sale[k].items # req[p].items

C17_Witness ==
    /\ pc[1] = "rejected" /\ pc[2] = "rejected"
    /\ req[1].items = << SaleItem("MILK-1L", 2, 2500, Code("TVA7")), SaleItem("FOO-1", 0, 600, Code("TVA7")) >>
    /\ product = initial /\ sale = <<>>

\* ------------------------------------------------------------------------
\* Claims about the stock a request leaves

\* C18: after a successful request that ran alone, every product is as it
\* was before the request except for its stock, which is lower by the sum of
\* qty over the lines of the request with its SKU (each line of a repeated
\* SKU counted); a product no line names is unchanged.
C18_StockFrame ==
    (pc[1] = "done" /\ \A p \in Handlers \ {1} : pc[p] = "idle") =>
        /\ Len(product) = Len(before[1].product)
        /\ \A i \in 1..Len(product) :
              product[i] = [before[1].product[i] EXCEPT
                              !.stock = @ - QtyOf(req[1].items, before[1].product[i].sku)]

C18_Witness ==
    /\ pc[1] = "done"
    /\ req[1].items = << SaleItem("MILK-1L", 2, 2500, Code("TVA7")), SaleItem("SUGAR-1KG", 2, 125, Code("TVA13")),
                         SaleItem("MILK-1L", 1, 600, Code("TVA20")) >>
    /\ before[1].product = DemoProducts
    /\ product[1].stock = 97 /\ product[4].stock = 78
    /\ product[2] = DemoProducts[2] /\ product[3] = DemoProducts[3]

\* the quantity of a SKU over the lines of all stored sale records
RECURSIVE Recorded(_, _)
Recorded(records, sku) ==
    IF records = <<>> THEN 0
    ELSE QtyOf(Head(records).items, sku) + Recorded(Tail(records), sku)

\* C19: when no request is in progress, for every SKU the initial stock less
\* the current stock is the sum of qty over the lines with that SKU in the
\* stored sale records, whatever requests succeeded or failed.
C19_StockConservation ==
    Quiescent =>
       \A i \in 1..Len(product) :
          initial[i].stock - product[i].stock = Recorded(sale, product[i].sku)

\* ------------------------------------------------------------------------
\* Claims about the keys of the catalog

\* C15: in every state the requests that run ensure_default_taxes (seed_demo,
\* list_taxes) can reach, at most one tax rate document is marked default
\* and no default code is stored twice.
C15_OneDefaultUniqueCodes ==
    /\ Cardinality({ i \in 1..Len(taxrate) : taxrate[i].is_default }) <= 1
    /\ \A i, j \in 1..Len(taxrate) :
          (i # j /\ taxrate[i].code \in Codes(DefaultTaxes)) => taxrate[i].code # taxrate[j].code

\* C16: a create_product whose SKU is stored is rejected and leaves the
\* product collection as it is, and in every state concurrent create_product
\* requests can reach no two product documents have the same SKU.
C16_SkuUnique ==
    [][/\ \A c \in Creators :
             (cpc[c] = "idle" /\ cpc'[c] # "idle" /\ creq'[c].sku \in Catalog) =>
                /\ cpc'[c] = "failed"
                /\ cresp'[c] = SkuExistsError
                /\ product' = product
       /\ \A i, j \in 1..Len(product') : i # j => product'[i].sku # product'[j].sku]_vars

====
